---- MODULE Spec2Model ----
(***************************************************************************)
(* Model of the traversal-and-delivery engine of fdx (src/src/walk.rs,     *)
(* src/src/output.rs): worker callbacks feeding one receiver thread through *)
(* an unbounded channel, the receiver's Buffering/Streaming state machine,  *)
(* and the orchestrator (scan) that joins the receiver.                     *)
(*                                                                         *)
(* Granularity: one worker callback is one step (its only shared effect is  *)
(* one channel send); one ReceiverBuffer::poll, together with the handling  *)
(* of its result in ReceiverBuffer::process, is one step.  The sink is      *)
(* modelled per entry: an entry is in rb.stdout once print_entry wrote it.  *)
(* Paths are integers; the root is path 0; DirEntry's order is the order of *)
(* the integers.                                                           *)
(***************************************************************************)
EXTENDS Integers, Sequences, FiniteSets, TLC

\* ------------------------------------------------------------------ bounds
\* Largest number of non-root entries in the searched tree.
NumEntries == 4
\* Largest number of traversal errors the walk reports.
NumErrors == 1
\* Number of walker threads (walk.rs:36 uses 4; the callbacks are identical).
NumWorkers == 2
\* walk.rs:12 MAX_BUFFER_LENGTH (1000 in the source), scaled down so that the
\* size trigger is reachable within NumEntries entries.
MAX_BUFFER_LENGTH == 2

\* Largest number of non-root entries in the runs checked for liveness.
LiveEntries == 3

Workers == 1..NumWorkers

\* ------------------------------------------------------------ exit codes
\* The ExitCode values constructed in walk.rs and output.rs.
HasResults(b) == [tag |-> "HasResults", has |-> b]
GeneralError == [tag |-> "GeneralError", has |-> FALSE]
Success == [tag |-> "Success", has |-> FALSE]
KilledBySigint == [tag |-> "KilledBySigint", has |-> FALSE]
NoCode == [tag |-> "none", has |-> FALSE]

\* ------------------------------------------------- what the walk discovers
\* One callback argument of the traversal primitive: Ok(entry) or Err(err).
Root == [kind |-> "ok", path |-> 0, depth |-> 0]
EntryItem(p) == [kind |-> "ok", path |-> p, depth |-> 1]
ErrItem(j) == [kind |-> "err", path |-> j, depth |-> 0]
Tree(k, j) == {Root} \cup {EntryItem(p) : p \in 1..k} \cup {ErrItem(i) : i \in 1..j}

\* WorkerResult
EntryMsg(p) == [tag |-> "Entry", val |-> p]
ErrorMsg(j) == [tag |-> "Error", val |-> j]

\* ------------------------------------------------------------- sequences
Range(s) == {s[i] : i \in 1..Len(s)}
IsSorted(s) == \A i \in 1..Len(s) : \A j \in i..Len(s) : s[i] <= s[j]
NoDup(s) == \A i \in 1..Len(s) : \A j \in 1..Len(s) : s[i] = s[j] => i = j

\* DirEntry's Ord: entries compare by path.
PathLess(a, b) == a < b

RECURSIVE Insert(_, _)
Insert(s, x) ==
  IF s = <<>> THEN <<x>>
  ELSE IF PathLess(x, Head(s)) THEN <<x>> \o s
  ELSE <<Head(s)>> \o Insert(Tail(s), x)

RECURSIVE SortByPath(_)
SortByPath(s) == IF s = <<>> THEN <<>> ELSE Insert(SortByPath(Tail(s)), Head(s))

\* self.buffer.sort() in stop
NoSort(s) == s
sort(s) == SortByPath(s)

\* ------------------------------------------------------------ the sink
\* Outcome of the sink during one poll step: every write and the flush
\* succeed ("ok"), the write of the at-th entry printed in this step fails
\* with BrokenPipe or with another error, or the flush fails.
SinkOk == [kind |-> "ok", at |-> 0]
WriteFails(o) == o.kind \in {"BrokenPipe", "Other"}

\* output::print_entry: a failed write ends the process, with Success for a
\* broken pipe and GeneralError otherwise.
print_entry_exit(o) == IF o.kind = "BrokenPipe" THEN Success ELSE GeneralError

\* ------------------------------------------------------ ReceiverBuffer
\* Result of a method of ReceiverBuffer: the new fields, Ok / Err(code) /
\* Exit(code) (the process exited inside print_entry), and why it stopped.
R(rb, res, code, cause) == [rb |-> rb, res |-> res, code |-> code, cause |-> cause]
ROk(rb) == R(rb, "Ok", NoCode, "none")

\* ReceiverBuffer::new
NewReceiverBuffer ==
  [mode |-> "Buffering", buffer |-> <<>>, num_results |-> 0,
   stdout |-> <<>>, flushed |-> 0]

\* flush as it would be if the result of stdout.flush() were dropped.
flushIgnoresError(rb, o) == ROk([rb EXCEPT !.flushed = Len(rb.stdout)])

\* ReceiverBuffer::flush
flush(rb, o) ==
  IF o.kind = "FlushErr"
  THEN R(rb, "Err", GeneralError, "sink")
  ELSE ROk([rb EXCEPT !.flushed = Len(rb.stdout)])

\* stream as it would be if it sorted the buffer before printing it.
streamSorted(rb, o) ==
  LET buf == sort(rb.buffer)
      n == IF WriteFails(o) THEN o.at - 1 ELSE Len(buf)
      rb1 == [rb EXCEPT !.mode = "Streaming", !.buffer = <<>>,
                        !.stdout = @ \o SubSeq(buf, 1, n)]
  IN  IF WriteFails(o)
      THEN R(rb1, "Exit", print_entry_exit(o), "sink")
      ELSE flush(rb1, o)

\* ReceiverBuffer::stream: set the mode, take the buffer, print it in the
\* order it is in, flush.
stream(rb, o) ==
  LET buf == rb.buffer
      n == IF WriteFails(o) THEN o.at - 1 ELSE Len(buf)
      rb1 == [rb EXCEPT !.mode = "Streaming", !.buffer = <<>>,
                        !.stdout = @ \o SubSeq(buf, 1, n)]
  IN  IF WriteFails(o)
      THEN R(rb1, "Exit", print_entry_exit(o), "sink")
      ELSE flush(rb1, o)

\* stop as it would be if it did not flush the buffer.
stopNoFlush(rb, o) ==
  R(rb, "Err", HasResults(rb.num_results > 0), "disconnect")

\* stop as it would be if it compared the counter with 1.
stopOffByOne(rb, o) ==
  IF rb.mode = "Buffering"
  THEN LET s == stream([rb EXCEPT !.buffer = sort(@)], o)
       IN  IF s.res = "Ok"
           THEN R(s.rb, "Err", HasResults(s.rb.num_results > 1), "disconnect")
           ELSE s
  ELSE R(rb, "Err", HasResults(rb.num_results > 1), "disconnect")

\* stop as it would be if it reset the mode for a next scan.
stopResetsMode(rb, o) ==
  IF rb.mode = "Buffering"
  THEN LET s == stream([rb EXCEPT !.buffer = sort(@)], o)
       IN  IF s.res = "Ok"
           THEN R([s.rb EXCEPT !.mode = "Buffering"], "Err",
                  HasResults(s.rb.num_results > 0), "disconnect")
           ELSE s
  ELSE R([rb EXCEPT !.mode = "Buffering"], "Err",
         HasResults(rb.num_results > 0), "disconnect")

\* ReceiverBuffer::stop
stop(rb, o) ==
  IF rb.mode = "Buffering"
  THEN LET s == stream([rb EXCEPT !.buffer = sort(@)], o)
       IN  IF s.res = "Ok"
           THEN R(s.rb, "Err", HasResults(s.rb.num_results > 0), "disconnect")
           ELSE s
  ELSE R(rb, "Err", HasResults(rb.num_results > 0), "disconnect")

\* The Entry arm as it would be if the entry that triggers the flush were
\* printed once more after stream.
pollEntryPrintsTwice(rb, e, o) ==
  LET count(b) == [b EXCEPT !.num_results = @ + 1]
  IN  IF rb.mode = "Buffering"
      THEN LET rb1 == [rb EXCEPT !.buffer = Append(@, e)]
           IN  IF Len(rb1.buffer) > MAX_BUFFER_LENGTH
               THEN LET s == stream(rb1, o)
                    IN  IF s.res = "Ok"
                        THEN ROk(count([s.rb EXCEPT !.stdout = Append(@, e)]))
                        ELSE s
               ELSE ROk(count(rb1))
      ELSE IF WriteFails(o)
           THEN R(rb, "Exit", print_entry_exit(o), "sink")
           ELSE LET f == flush([rb EXCEPT !.stdout = Append(@, e)], o)
                IN  IF f.res = "Ok" THEN ROk(count(f.rb)) ELSE f

\* The Entry arm as it would be if the length were tested before the push.
pollEntryCheckFirst(rb, e, o) ==
  LET count(b) == [b EXCEPT !.num_results = @ + 1]
  IN  IF rb.mode = "Buffering"
      THEN IF Len(rb.buffer) > MAX_BUFFER_LENGTH
           THEN LET s == stream([rb EXCEPT !.buffer = Append(@, e)], o)
                IN  IF s.res = "Ok" THEN ROk(count(s.rb)) ELSE s
           ELSE ROk(count([rb EXCEPT !.buffer = Append(@, e)]))
      ELSE IF WriteFails(o)
           THEN R(rb, "Exit", print_entry_exit(o), "sink")
           ELSE LET f == flush([rb EXCEPT !.stdout = Append(@, e)], o)
                IN  IF f.res = "Ok" THEN ROk(count(f.rb)) ELSE f

\* The Entry arm as it would be if it pushed to the buffer in either mode.
pollEntryAlwaysBuffers(rb, e, o) ==
  LET count(b) == [b EXCEPT !.num_results = @ + 1]
      rb1 == [rb EXCEPT !.buffer = Append(@, e)]
  IN  IF Len(rb1.buffer) > MAX_BUFFER_LENGTH
      THEN LET s == stream(rb1, o)
           IN  IF s.res = "Ok" THEN ROk(count(s.rb)) ELSE s
      ELSE ROk(count(rb1))

\* The Entry arm as it would be if Streaming printed without flushing.
pollEntryNoFlush(rb, e, o) ==
  LET count(b) == [b EXCEPT !.num_results = @ + 1]
  IN  IF rb.mode = "Buffering"
      THEN LET rb1 == [rb EXCEPT !.buffer = Append(@, e)]
           IN  IF Len(rb1.buffer) > MAX_BUFFER_LENGTH
               THEN LET s == stream(rb1, o)
                    IN  IF s.res = "Ok" THEN ROk(count(s.rb)) ELSE s
               ELSE ROk(count(rb1))
      ELSE IF WriteFails(o)
           THEN R(rb, "Exit", print_entry_exit(o), "sink")
           ELSE ROk(count([rb EXCEPT !.stdout = Append(@, e)]))

\* The Entry arm as it would be if only buffered entries were counted.
pollEntryCountsBufferedOnly(rb, e, o) ==
  LET count(b) == [b EXCEPT !.num_results = @ + 1]
  IN  IF rb.mode = "Buffering"
      THEN LET rb1 == [rb EXCEPT !.buffer = Append(@, e)]
           IN  IF Len(rb1.buffer) > MAX_BUFFER_LENGTH
               THEN LET s == stream(rb1, o)
                    IN  IF s.res = "Ok" THEN ROk(count(s.rb)) ELSE s
               ELSE ROk(count(rb1))
      ELSE IF WriteFails(o)
           THEN R(rb, "Exit", print_entry_exit(o), "sink")
           ELSE flush([rb EXCEPT !.stdout = Append(@, e)], o)

\* ReceiverBuffer::poll, arm Ok(WorkerResult::Entry(dir_entry))
pollEntry(rb, e, o) ==
  LET count(b) == [b EXCEPT !.num_results = @ + 1]
  IN  IF rb.mode = "Buffering"
      THEN LET rb1 == [rb EXCEPT !.buffer = Append(@, e)]
           IN  IF Len(rb1.buffer) > MAX_BUFFER_LENGTH
               THEN LET s == stream(rb1, o)
                    IN  IF s.res = "Ok" THEN ROk(count(s.rb)) ELSE s
               ELSE ROk(count(rb1))
      ELSE IF WriteFails(o)
           THEN R(rb, "Exit", print_entry_exit(o), "sink")
           ELSE LET f == flush([rb EXCEPT !.stdout = Append(@, e)], o)
                IN  IF f.res = "Ok" THEN ROk(count(f.rb)) ELSE f

\* poll as it would be if the Error arm counted a result.
pollErrorCounts(rb, r, o) ==
  CASE r.tag = "Entry" -> pollEntry(rb, r.val, o)
    [] r.tag = "Error" -> ROk([rb EXCEPT !.num_results = @ + 1])
    [] r.tag = "Timeout" -> stream(rb, o)
    [] r.tag = "Disconnected" -> stop(rb, o)

\* ReceiverBuffer::poll
poll(rb, r, o) ==
  CASE r.tag = "Entry" -> pollEntry(rb, r.val, o)
    [] r.tag = "Error" -> ROk(rb)
    [] r.tag = "Timeout" -> stream(rb, o)
    [] r.tag = "Disconnected" -> stop(rb, o)

\* The entries the poll step prints, and whether it flushes: the sink can
\* only fail where the step uses it.
NumPrints(rb, r) ==
  CASE r.tag = "Entry" ->
         IF rb.mode = "Streaming" THEN 1
         ELSE IF Len(rb.buffer) + 1 > MAX_BUFFER_LENGTH THEN Len(rb.buffer) + 1 ELSE 0
    [] r.tag = "Timeout" -> Len(rb.buffer)
    [] r.tag = "Disconnected" -> IF rb.mode = "Buffering" THEN Len(rb.buffer) ELSE 0
    [] OTHER -> 0

Flushes(rb, r) ==
  CASE r.tag = "Entry" ->
         rb.mode = "Streaming" \/ Len(rb.buffer) + 1 > MAX_BUFFER_LENGTH
    [] r.tag = "Timeout" -> TRUE
    [] r.tag = "Disconnected" -> rb.mode = "Buffering"
    [] OTHER -> FALSE

SinkOutcomes(rb, r) ==
  {SinkOk}
  \cup (IF Flushes(rb, r) THEN {[kind |-> "FlushErr", at |-> 0]} ELSE {})
  \cup {[kind |-> k, at |-> i] : k \in {"BrokenPipe", "Other"}, i \in 1..NumPrints(rb, r)}

\* --------------------------------------------------------- the callback
\* The closure of spawn_senders, applied to one callback argument; alive:
\* the Receiver has not been dropped, so that tx_thread.send succeeds.
WalkResult(msgs, state) == [msgs |-> msgs, state |-> state]

\* The callback as it would be without the depth-0 test.
callbackNoSkip(item, alive) ==
  IF item.kind = "err"
  THEN IF alive THEN WalkResult(<<ErrorMsg(item.path)>>, "Continue")
       ELSE WalkResult(<<>>, "Quit")
  ELSE IF alive THEN WalkResult(<<EntryMsg(item.path)>>, "Continue")
       ELSE WalkResult(<<>>, "Quit")

\* The callback as it would be if a failed send were ignored.
callbackIgnoresSendError(item, alive) ==
  IF item.kind = "ok" /\ item.depth = 0
  THEN WalkResult(<<>>, "Continue")
  ELSE IF item.kind = "err"
       THEN WalkResult(IF alive THEN <<ErrorMsg(item.path)>> ELSE <<>>, "Continue")
       ELSE WalkResult(IF alive THEN <<EntryMsg(item.path)>> ELSE <<>>, "Continue")

\* The callback as it would be if a traversal error ended the thread's walk.
callbackQuitsOnError(item, alive) ==
  IF item.kind = "ok" /\ item.depth = 0
  THEN WalkResult(<<>>, "Continue")
  ELSE IF item.kind = "err"
       THEN WalkResult(IF alive THEN <<ErrorMsg(item.path)>> ELSE <<>>, "Quit")
       ELSE IF alive THEN WalkResult(<<EntryMsg(item.path)>>, "Continue")
            ELSE WalkResult(<<>>, "Quit")

callback(item, alive) ==
  IF item.kind = "ok" /\ item.depth = 0
  THEN WalkResult(<<>>, "Continue")
  ELSE IF item.kind = "err"
       THEN IF alive THEN WalkResult(<<ErrorMsg(item.path)>>, "Continue")
            ELSE WalkResult(<<>>, "Quit")
       ELSE IF alive THEN WalkResult(<<EntryMsg(item.path)>>, "Continue")
            ELSE WalkResult(<<>>, "Quit")

\* scan as it would be if it returned the receiver's code unconditionally.
scan_resultIgnoresFlag(interrupted, code) == code

\* scan, after the join: the interrupt flag overrides the receiver's code.
scan_result(interrupted, code) ==
  IF interrupted THEN KilledBySigint ELSE code

\* ------------------------------------------------------------------ state
VARIABLES
  todo,            \* callback arguments the walk has not yet delivered
  wstate,          \* per walker thread: "running", "quit" (returned Quit), "done"
  chan,            \* the mpsc channel: messages sent and not yet received
  rb,              \* the fields of ReceiverBuffer (incl. what stdout received)
  rpc,             \* receiver thread: "running", "returning" (process is
                   \* returning its code) or "stopped" (the thread ended)
  exit_code,       \* the ExitCode the receiver thread returned
  quit_flag,       \* scan's quit_flag
  interrupt_flag,  \* scan's interrupt_flag
  deadlinePassed,  \* Instant::now() has reached rb's deadline
  opc,             \* scan: "spawn_senders", "join", "joined", "done"
  final,           \* the ExitCode scan returned
  procExit,        \* the ExitCode the process exited with inside print_entry
  sent,            \* history: paths of the entries sent successfully
  nrecv,           \* history: number of Entry messages received
  errorsReported,  \* history: number of print_error calls of the receiver
  stopCause,       \* history: "none", "disconnect" or "sink"
  trigger,         \* history: what ended Buffering: "size", "timeout", "stop"
  switchBuf,       \* history: the buffer, in arrival order, when Buffering ended
  discBeforeDeadline, \* history: the channel disconnected before the deadline
  sinkFault,       \* history: how the sink failed: "none", "write", "flush"
  recvSeq          \* history: the paths of the Entry messages received, in order

vars == <<todo, wstate, chan, rb, rpc, exit_code, quit_flag, interrupt_flag,
          deadlinePassed, opc, final, procExit, sent, nrecv, errorsReported,
          stopCause, trigger, switchBuf, discBeforeDeadline, sinkFault,
          recvSeq>>

history == <<sent, nrecv, errorsReported, stopCause, trigger, switchBuf,
             discBeforeDeadline, sinkFault, recvSeq>>

\* The Receiver end exists until the receiver thread returns.
RxAlive == rpc # "stopped"
\* Every Sender is dropped once spawn_senders has returned.
Disconnected == opc # "spawn_senders"
Alive == procExit = NoCode

\* scan up to and including spawn_receiver: flags false, receiver Buffering,
\* deadline in the future, the walk about to start on some tree.
InitWith(n) ==
  /\ \E k \in 0..n : \E j \in 0..NumErrors : todo = Tree(k, j)
  /\ wstate = [w \in Workers |-> "running"]
  /\ chan = <<>>
  /\ rb = NewReceiverBuffer
  /\ rpc = "running"
  /\ exit_code = NoCode
  /\ quit_flag = FALSE
  /\ interrupt_flag = FALSE
  /\ deadlinePassed = FALSE
  /\ opc = "spawn_senders"
  /\ final = NoCode
  /\ procExit = NoCode
  /\ sent = {}
  /\ nrecv = 0
  /\ errorsReported = 0
  /\ stopCause = "none"
  /\ trigger = "none"
  /\ switchBuf = <<>>
  /\ discBeforeDeadline = FALSE
  /\ sinkFault = "none"
  /\ recvSeq = <<>>

Init == InitWith(NumEntries)

\* ---------------------------------------------------------------- workers
\* One callback of walker thread w on one discovered object or error.
WorkerCallback(w) ==
  /\ Alive /\ opc = "spawn_senders" /\ wstate[w] = "running"
  /\ \E item \in todo :
       LET c == callback(item, RxAlive)
       IN  /\ todo' = todo \ {item}
           /\ chan' = chan \o c.msgs
           /\ sent' = sent \cup {m.val : m \in {x \in Range(c.msgs) : x.tag = "Entry"}}
           /\ wstate' = [wstate EXCEPT ![w] = IF c.state = "Quit" THEN "quit" ELSE @]
  /\ UNCHANGED <<rb, rpc, exit_code, quit_flag, interrupt_flag, deadlinePassed,
                 opc, final, procExit, nrecv, errorsReported, stopCause,
                 trigger, switchBuf, discBeforeDeadline, sinkFault, recvSeq>>

\* Walker thread w ends: nothing is left to visit, or the walk was told to
\* quit by a callback.
WorkerFinish(w) ==
  /\ Alive /\ opc = "spawn_senders" /\ wstate[w] = "running"
  /\ todo = {} \/ \E v \in Workers : wstate[v] = "quit"
  /\ wstate' = [wstate EXCEPT ![w] = "done"]
  /\ UNCHANGED <<todo, chan, rb, rpc, exit_code, quit_flag, interrupt_flag,
                 deadlinePassed, opc, final, procExit, history>>

\* parallel_walker.run returns once every walker thread has ended;
\* spawn_senders returns and drops tx, the last Sender.
SpawnSendersReturn ==
  /\ Alive /\ opc = "spawn_senders"
  /\ \A w \in Workers : wstate[w] # "running"
  /\ opc' = "join"
  /\ discBeforeDeadline' = ~deadlinePassed
  /\ UNCHANGED <<todo, wstate, chan, rb, rpc, exit_code, quit_flag,
                 interrupt_flag, deadlinePassed, final, procExit, sent, nrecv,
                 errorsReported, stopCause, trigger, switchBuf, sinkFault,
                 recvSeq>>

\* --------------------------------------------------------------- receiver
Timeout == [tag |-> "Timeout", val |-> 0]
DisconnectedErr == [tag |-> "Disconnected", val |-> 0]
Blocked == [tag |-> "Blocked", val |-> 0]

\* recv as it would be if a disconnected channel were not reported.
recvKeepsWaiting ==
  IF rb.mode = "Buffering" /\ deadlinePassed THEN Timeout
  ELSE IF chan # <<>> THEN Head(chan)
  ELSE Blocked

\* recv as it would be if Buffering called recv_timeout with a zero duration
\* after the deadline: queued messages come before the Timeout.
recvMessagesFirst ==
  IF chan # <<>> THEN Head(chan)
  ELSE IF rb.mode = "Buffering" /\ deadlinePassed THEN Timeout
  ELSE IF Disconnected THEN DisconnectedErr
  ELSE Blocked

\* recv as it would be if, past the deadline, an empty disconnected channel
\* were reported before the Timeout.
recvDisconnectBeforeTimeout ==
  IF rb.mode = "Buffering" /\ deadlinePassed
  THEN IF chan = <<>> /\ Disconnected THEN DisconnectedErr ELSE Timeout
  ELSE IF chan # <<>> THEN Head(chan)
  ELSE IF Disconnected THEN DisconnectedErr
  ELSE Blocked

\* ReceiverBuffer::recv.  Buffering: a passed deadline yields Timeout before
\* the channel is looked at; otherwise recv_timeout yields the next message,
\* Disconnected, or keeps waiting.  Streaming: rx.recv().
recv ==
  IF rb.mode = "Buffering" /\ deadlinePassed THEN Timeout
  ELSE IF chan # <<>> THEN Head(chan)
  ELSE IF Disconnected THEN DisconnectedErr
  ELSE Blocked

\* process with the store of the quit flag left out.
process_noStore(res, q) == q

\* ReceiverBuffer::process: the quit flag after poll returned res.
process_quit(res, q) == IF res = "Err" THEN TRUE ELSE q

\* One iteration of the loop of ReceiverBuffer::process: poll, and on Err
\* store the quit flag and start returning the code.
ProcessStep(r, o) ==
  LET p == poll(rb, r, o)
      fromChan == r.tag \in {"Entry", "Error"}
      left == rb.mode = "Buffering" /\ p.rb.mode = "Streaming"
  IN  /\ rb' = p.rb
      /\ chan' = IF fromChan THEN Tail(chan) ELSE chan
      /\ quit_flag' = process_quit(p.res, quit_flag)
      /\ rpc' = IF p.res = "Err" THEN "returning" ELSE rpc
      /\ exit_code' = IF p.res = "Err" THEN p.code ELSE exit_code
      /\ procExit' = IF p.res = "Exit" THEN p.code ELSE procExit
      /\ nrecv' = IF r.tag = "Entry" THEN nrecv + 1 ELSE nrecv
      /\ errorsReported' = IF r.tag = "Error" THEN errorsReported + 1 ELSE errorsReported
      /\ stopCause' = IF p.res = "Ok" THEN stopCause ELSE p.cause
      /\ trigger' = IF ~left THEN trigger
                    ELSE CASE r.tag = "Entry" -> "size"
                           [] r.tag = "Timeout" -> "timeout"
                           [] OTHER -> "stop"
      /\ switchBuf' = IF ~left THEN switchBuf
                      ELSE IF r.tag = "Entry" THEN Append(rb.buffer, r.val)
                      ELSE rb.buffer
      /\ sinkFault' = CASE WriteFails(o) -> "write"
                         [] o.kind = "FlushErr" -> "flush"
                         [] OTHER -> sinkFault
      /\ recvSeq' = IF r.tag = "Entry" THEN Append(recvSeq, r.val) ELSE recvSeq
      /\ UNCHANGED <<todo, wstate, interrupt_flag, deadlinePassed, opc, final,
                     sent, discBeforeDeadline>>

PollEntry ==
  /\ Alive /\ rpc = "running" /\ recv.tag = "Entry"
  /\ \E o \in SinkOutcomes(rb, recv) : ProcessStep(recv, o)

PollError ==
  /\ Alive /\ rpc = "running" /\ recv.tag = "Error"
  /\ \E o \in SinkOutcomes(rb, recv) : ProcessStep(recv, o)

PollTimeout ==
  /\ Alive /\ rpc = "running" /\ recv.tag = "Timeout"
  /\ \E o \in SinkOutcomes(rb, recv) : ProcessStep(recv, o)

PollDisconnected ==
  /\ Alive /\ rpc = "running" /\ recv.tag = "Disconnected"
  /\ \E o \in SinkOutcomes(rb, recv) : ProcessStep(recv, o)

\* process has returned: the receiver thread ends, which drops the Receiver
\* and the messages still queued; from now on every send fails.
ReceiverReturn ==
  /\ Alive /\ rpc = "returning"
  /\ rpc' = "stopped"
  /\ chan' = <<>>
  /\ UNCHANGED <<todo, wstate, rb, exit_code, quit_flag, interrupt_flag,
                 deadlinePassed, opc, final, procExit, history>>

\* ------------------------------------------------------------ environment
\* The clock reaches the deadline fixed in ReceiverBuffer::new (it is read
\* only in Buffering mode).
Tick ==
  /\ Alive /\ rpc = "running" /\ rb.mode = "Buffering" /\ ~deadlinePassed
  /\ deadlinePassed' = TRUE
  /\ UNCHANGED <<todo, wstate, chan, rb, rpc, exit_code, quit_flag,
                 interrupt_flag, opc, final, procExit, history>>

\* The external interrupt notification stores the interrupt flag.
Interrupt ==
  /\ Alive /\ opc # "done" /\ ~interrupt_flag
  /\ interrupt_flag' = TRUE
  /\ UNCHANGED <<todo, wstate, chan, rb, rpc, exit_code, quit_flag,
                 deadlinePassed, opc, final, procExit, history>>

\* ----------------------------------------------------------- orchestrator
\* receiver_thread.join() returns once the receiver thread has returned.
Join ==
  /\ Alive /\ opc = "join" /\ rpc = "stopped"
  /\ opc' = "joined"
  /\ UNCHANGED <<todo, wstate, chan, rb, rpc, exit_code, quit_flag,
                 interrupt_flag, deadlinePassed, final, procExit, history>>

\* interrupt_flag.load and the result of scan.
ScanReturn ==
  /\ Alive /\ opc = "joined"
  /\ final' = scan_result(interrupt_flag, exit_code)
  /\ opc' = "done"
  /\ UNCHANGED <<todo, wstate, chan, rb, rpc, exit_code, quit_flag,
                 interrupt_flag, deadlinePassed, procExit, history>>

Next ==
  \/ \E w \in Workers : WorkerCallback(w)
  \/ \E w \in Workers : WorkerFinish(w)
  \/ SpawnSendersReturn
  \/ PollEntry
  \/ PollError
  \/ PollTimeout
  \/ PollDisconnected
  \/ ReceiverReturn
  \/ Tick
  \/ Interrupt
  \/ Join
  \/ ScanReturn

Spec == Init /\ [][Next]_vars

\* The receiver thread keeps running: whenever recv can return, or process
\* is returning, the thread takes its next step.
ReceiverStep ==
  PollEntry \/ PollError \/ PollTimeout \/ PollDisconnected \/ ReceiverReturn

\* The same program on trees of at most LiveEntries entries.
LiveInit == InitWith(LiveEntries)

LiveSpec == LiveInit /\ [][Next]_vars /\ WF_vars(ReceiverStep)

TypeOK ==
  /\ rb.mode \in {"Buffering", "Streaming"}
  /\ rpc \in {"running", "returning", "stopped"}
  /\ opc \in {"spawn_senders", "join", "joined", "done"}
  /\ quit_flag \in BOOLEAN /\ interrupt_flag \in BOOLEAN
  /\ rb.num_results \in 0..NumEntries

\* ================================================================ claims
Min(a, b) == IF a < b THEN a ELSE b
StoppedOnDisconnect == rpc = "stopped" /\ stopCause = "disconnect"
\* The output is exactly the sent entries, sorted by path, each once.
OutputIsSortedSent ==
  IsSorted(rb.stdout) /\ NoDup(rb.stdout) /\ Range(rb.stdout) = sent

\* C1 (as stated): if at most MAX_BUFFER_LENGTH entries are sent, the
\* channel disconnects before the deadline is reached and the sink never
\* fails, the output at stop is all sent entries sorted by path, each once.
C1_DisconnectBeforeDeadlineSorted ==
  (StoppedOnDisconnect /\ Cardinality(sent) <= MAX_BUFFER_LENGTH
     /\ discBeforeDeadline)
  => OutputIsSortedSent

\* C1 (amended): if at most MAX_BUFFER_LENGTH entries are sent, the receiver
\* observes the disconnect while still Buffering (no receive step found the
\* deadline reached before it) and the sink never fails, the output at stop
\* is all sent entries sorted by path, each exactly once.
C1_StopWhileBufferingSorted ==
  (StoppedOnDisconnect /\ Cardinality(sent) <= MAX_BUFFER_LENGTH
     /\ trigger = "stop")
  => OutputIsSortedSent

\* Two entries arrived out of path order and the receiver stopped on
\* disconnect while Buffering.
C1_Witness ==
  /\ StoppedOnDisconnect /\ trigger = "stop"
  /\ switchBuf = <<2, 1>> /\ Len(rb.stdout) = 2

\* C2: no entry occurs twice in the output, and nothing that was written is
\* still held in the buffer to be printed again.
C2_NoDuplicateOutput ==
  /\ NoDup(rb.stdout)
  /\ Range(rb.stdout) \cap Range(rb.buffer) = {}

\* The buffer was flushed by the size trigger, entries were streamed after
\* it, and the receiver then stopped.
C2_Witness ==
  /\ StoppedOnDisconnect /\ trigger = "size"
  /\ Len(rb.stdout) > Len(switchBuf)

\* C3: when the receiver stops on disconnect without sink failure, every
\* entry sent is in the output and the output has as many lines as entries
\* were sent, whichever way Buffering ended.
C3_NothingLost ==
  StoppedOnDisconnect =>
    /\ Range(rb.stdout) = sent
    /\ Len(rb.stdout) = Cardinality(sent)

\* The scan switched to Streaming on the timeout with a non-empty buffer,
\* went on receiving, and stopped on disconnect.
C3_Witness ==
  /\ StoppedOnDisconnect /\ trigger = "timeout"
  /\ Len(switchBuf) >= 1 /\ Len(rb.stdout) >= 3

\* C4: the root (path 0) is never in the channel, the buffer or the output,
\* and the result counter counts only non-root entries that were sent.
C4_RootNeverEmitted ==
  /\ EntryMsg(0) \notin Range(chan)
  /\ 0 \notin Range(rb.buffer)
  /\ 0 \notin Range(rb.stdout)
  /\ 0 \notin sent
  /\ rb.num_results <= Cardinality(sent \ {0})

\* The callback ran on the root, and entries were sent and counted.
C4_Witness ==
  /\ Root \notin todo /\ StoppedOnDisconnect
  /\ rb.num_results >= 2 /\ Len(rb.stdout) >= 2

\* C5: when the receiver stops on disconnect, its code is HasResults(true)
\* iff an Entry was received and HasResults(false) iff none was; absent an
\* interrupt that is the final classification; with no entry in the tree
\* the output is empty and the classification is "no results".
C5_HasResultsIffReceived ==
  /\ StoppedOnDisconnect =>
       /\ exit_code = HasResults(TRUE) <=> nrecv > 0
       /\ exit_code = HasResults(FALSE) <=> nrecv = 0
       /\ sent = {} => rb.stdout = <<>> /\ exit_code = HasResults(FALSE)
  /\ (StoppedOnDisconnect /\ opc = "done" /\ ~interrupt_flag) =>
       /\ final = HasResults(TRUE) <=> nrecv > 0
       /\ final = HasResults(FALSE) <=> nrecv = 0

\* A scan with exactly one entry ended, uninterrupted, with "has results".
C5_Witness ==
  /\ StoppedOnDisconnect /\ opc = "done" /\ ~interrupt_flag
  /\ nrecv = 1 /\ final = HasResults(TRUE)

\* C6: scan has a result only after the receiver stopped and was joined;
\* the result is KilledBySigint if the interrupt flag is set when it is read
\* and the receiver's code otherwise.
C6_InterruptOverrides ==
  /\ opc \in {"joined", "done"} => rpc = "stopped"
  /\ final # NoCode => opc = "done"
  /\ opc = "done" =>
       /\ interrupt_flag => final = KilledBySigint
       /\ ~interrupt_flag => final = exit_code

\* The receiver reported results, the flag was set, scan returned.
C6_Witness ==
  /\ opc = "done" /\ interrupt_flag
  /\ exit_code = HasResults(TRUE) /\ final = KilledBySigint

\* C7: a write or flush failure of the sink never yields the general-error
\* classification; the scan ends with a successful one.
C7_SinkFailureIsGraceful ==
  stopCause = "sink" =>
    /\ procExit # GeneralError
    /\ exit_code # GeneralError
    /\ final # GeneralError

\* C8: the mode changes only from Buffering to Streaming, never back.
C8_ModeOnlyForward ==
  [][rb.mode' # rb.mode => rb.mode = "Buffering" /\ rb.mode' = "Streaming"]_vars

\* The mode changed on the timeout, an error was reported, and the receiver
\* stopped in Streaming mode.
C8_Witness ==
  /\ rb.mode = "Streaming" /\ trigger = "timeout"
  /\ errorsReported >= 1 /\ StoppedOnDisconnect

\* C9: while Buffering the buffer holds at most MAX_BUFFER_LENGTH entries;
\* the push that exceeds it empties the buffer into the output and sets
\* Streaming in the same poll step.
C9_BufferBounded ==
  /\ rb.mode = "Buffering" => Len(rb.buffer) <= MAX_BUFFER_LENGTH
  /\ trigger = "size" =>
       /\ rb.mode = "Streaming" /\ rb.buffer = <<>>
       /\ Len(switchBuf) = MAX_BUFFER_LENGTH + 1
       /\ procExit = NoCode => Range(switchBuf) \subseteq Range(rb.stdout)

\* The size trigger fired and the receiver goes on in Streaming mode.
C9_Witness ==
  /\ trigger = "size" /\ rpc = "running" /\ procExit = NoCode
  /\ Len(rb.stdout) = MAX_BUFFER_LENGTH + 1

LeftBufferingEarly == trigger \in {"size", "timeout"}
\* What of the buffer held at the transition got written.
FlushedPart == SubSeq(rb.stdout, 1, Min(Len(rb.stdout), Len(switchBuf)))

C11_FlushFailureStops ==
  /\ [](sinkFault = "flush" => quit_flag /\ rpc # "running")
  /\ [][sinkFault = "flush" =>
          rb' = rb /\ nrecv' = nrecv /\ recvSeq' = recvSeq
          /\ errorsReported' = errorsReported]_vars

\* A flush failed after an entry was written, with messages still queued.
C11_Witness ==
  /\ sinkFault = "flush" /\ rpc = "returning"
  /\ chan # <<>> /\ Len(rb.stdout) >= 1

\* C12 (as stated): the quit flag is true only after a sink failure or after
\* a worker found the channel closed, and a scan that ends by disconnect
\* with no sink failure leaves it false.
C12_QuitOnlyOnFailure ==
  /\ quit_flag => (sinkFault # "none" \/ \E w \in Workers : wstate[w] = "quit")
  /\ (StoppedOnDisconnect /\ sinkFault = "none") => ~quit_flag

\* C12 (amended): the quit flag is false at the start and is stored, by the
\* receiver only, when poll returns Err (flush failure or disconnect), so it
\* is true exactly when the receiver has left its loop, also after a scan
\* that ends by disconnect with no sink failure; no worker step changes it,
\* and no worker or receiver step changes the interrupt flag.
C12_QuitSetWhenReceiverStops ==
  /\ [](quit_flag <=> rpc # "running")
  /\ [][quit_flag' # quit_flag =>
          todo' = todo /\ wstate' = wstate /\ sent' = sent
          /\ rpc = "running" /\ rpc' = "returning"]_vars
  /\ [][interrupt_flag' # interrupt_flag =>
          todo' = todo /\ wstate' = wstate /\ chan' = chan
          /\ rb' = rb /\ rpc' = rpc]_vars

\* A scan that received entries ended by disconnect, the sink never failed,
\* and the quit flag is set.
C12_Witness ==
  /\ StoppedOnDisconnect /\ sinkFault = "none"
  /\ quit_flag /\ nrecv >= 1 /\ ~interrupt_flag

\* C13: once every worker has finished (all senders dropped), the receiver
\* stops unless the sink fails; it reports the disconnect only when the
\* channel is empty, so that every queued message was received before.
C13_ReceiverEventuallyStops ==
  /\ Disconnected ~> (rpc = "stopped" \/ sinkFault # "none")
  /\ [][(stopCause = "none" /\ stopCause' = "disconnect") =>
          chan = <<>> /\ Disconnected /\ Len(recvSeq) = Cardinality(sent)]_vars

\* The receiver drained messages in Streaming mode after the workers had
\* finished and then stopped on the disconnect.
C13_Witness ==
  /\ StoppedOnDisconnect /\ trigger = "timeout" /\ discBeforeDeadline
  /\ Len(rb.stdout) >= 2 /\ errorsReported >= 1

\* The receiver takes a step (it changes its fields, reports an error or
\* leaves its loop).
ReceiverMoves ==
  rb' # rb \/ errorsReported' # errorsReported \/ rpc' # rpc

DeadlineReachedBuffering ==
  rb.mode = "Buffering" /\ deadlinePassed /\ rpc = "running" /\ Alive

\* C14: once the deadline is reached while Buffering, the next receiver
\* step is a timeout that leaves the channel as it is, writes the buffer
\* and sets Streaming; it happens also if no worker sends or finishes.
C14_DeadlineForcesStreaming ==
  /\ [][(DeadlineReachedBuffering /\ ReceiverMoves) =>
          /\ rb'.mode = "Streaming" /\ rb'.buffer = <<>>
          /\ Len(chan') >= Len(chan)
          /\ recvSeq' = recvSeq
          /\ sinkFault' = "none" => rb'.stdout = rb.stdout \o rb.buffer]_vars
  /\ DeadlineReachedBuffering ~> (rb.mode = "Streaming")

\* The timeout flushed buffered entries while every worker was still
\* running and the walk had more to deliver.
C14_Witness ==
  /\ trigger = "timeout" /\ sinkFault = "none" /\ Len(rb.stdout) >= 1
  /\ opc = "spawn_senders" /\ todo # {}
  /\ \A w \in Workers : wstate[w] = "running"

\* What was written after the buffer flushed at the transition, and what
\* was received after the entries that buffer held.
StreamedOut == SubSeq(rb.stdout, Len(switchBuf) + 1, Len(rb.stdout))
StreamedIn == SubSeq(recvSeq, Len(switchBuf) + 1, Len(recvSeq))

\* C15: in Streaming mode the output is the flushed buffer followed by the
\* entries received since, in the order they were received, none held back.
C15_StreamingKeepsArrivalOrder ==
  (rb.mode = "Streaming" /\ sinkFault = "none") =>
    /\ Len(rb.stdout) >= Len(switchBuf)
    /\ Range(SubSeq(rb.stdout, 1, Len(switchBuf))) = Range(switchBuf)
    /\ SubSeq(recvSeq, 1, Len(switchBuf)) = switchBuf
    /\ StreamedOut = StreamedIn

\* After a timeout flush of a non-empty buffer, two entries were streamed
\* out of path order.
C15_Witness ==
  /\ rb.mode = "Streaming" /\ sinkFault = "none" /\ trigger = "timeout"
  /\ Len(switchBuf) >= 1 /\ Len(StreamedOut) >= 2 /\ ~IsSorted(StreamedOut)

\* C16: after every poll step in Streaming mode (the sink not having
\* failed) every received entry is written and flushed and the buffer is
\* empty.
C16_StreamingFlushesEachEntry ==
  (rb.mode = "Streaming" /\ sinkFault = "none") =>
    /\ rb.buffer = <<>>
    /\ Len(rb.stdout) = Len(recvSeq)
    /\ rb.flushed = Len(rb.stdout)

\* An entry was received and printed in Streaming mode.
C16_Witness ==
  /\ rb.mode = "Streaming" /\ sinkFault = "none" /\ rpc = "running"
  /\ Len(StreamedOut) >= 1 /\ rb.flushed = Len(rb.stdout)

\* C17: the step that receives a TraversalError reports it and changes
\* neither the mode, the buffer, the counter nor the output, and the
\* receiver goes on.
C17_ErrorLeavesReceiverState ==
  [][errorsReported' # errorsReported =>
       /\ chan # <<>> /\ Head(chan).tag = "Error" /\ chan' = Tail(chan)
       /\ errorsReported' = errorsReported + 1
       /\ rb' = rb /\ recvSeq' = recvSeq
       /\ rpc = "running" /\ rpc' = "running"
       /\ quit_flag' = quit_flag /\ exit_code' = exit_code]_vars

\* An error was reported while entries were buffered.
C17_Witness ==
  /\ errorsReported = 1 /\ rb.mode = "Buffering" /\ rpc = "running"
  /\ Len(rb.buffer) >= 1 /\ rb.num_results = Len(rb.buffer)

\* The argument of the callback that ran in this step (only a callback
\* takes something out of todo), and the threads whose state it changed.
CallbackRuns == todo' # todo
CallbackItem == CHOOSE i \in todo : i \notin todo'
ThreadsChanged == {w \in Workers : wstate'[w] # wstate[w]}

\* C18: a callback whose send fails (the Receiver is gone) returns Quit for
\* the thread it runs on and changes no other thread's state; no worker
\* step changes the quit flag or the interrupt flag.
C18_SendFailureQuitsOwnThread ==
  /\ [][CallbackRuns =>
          /\ Cardinality(ThreadsChanged) <= 1
          /\ \A w \in ThreadsChanged :
               wstate[w] = "running" /\ wstate'[w] = "quit" /\ ~RxAlive
          /\ (~RxAlive /\ CallbackItem # Root) =>
               Cardinality(ThreadsChanged) = 1 /\ chan' = chan /\ sent' = sent]_vars
  /\ [][(CallbackRuns \/ wstate' # wstate) =>
          quit_flag' = quit_flag /\ interrupt_flag' = interrupt_flag]_vars

\* After the receiver ended, one thread returned Quit on its failed send
\* while the other is still walking.
C18_Witness ==
  /\ rpc = "stopped" /\ todo # {} /\ ~interrupt_flag
  /\ \E w \in Workers : wstate[w] = "quit"
  /\ \E w \in Workers : wstate[w] = "running"

\* C19: while the Receiver exists, the callback forwards a traversal error
\* as an Error message and the thread goes on; what is sent afterwards is
\* in the output when the receiver stops on disconnect.
C19_ErrorForwardedWorkerContinues ==
  /\ [][(CallbackRuns /\ CallbackItem.kind = "err" /\ RxAlive) =>
          /\ chan' = Append(chan, ErrorMsg(CallbackItem.path))
          /\ wstate' = wstate]_vars
  /\ [](StoppedOnDisconnect => sent \subseteq Range(rb.stdout))

\* The error was the first message, it has been reported, and entries sent
\* after it are queued behind it with every thread still running.
C19_Witness ==
  /\ errorsReported = 1 /\ recvSeq = <<>> /\ rpc = "running"
  /\ chan # <<>> /\ Head(chan).tag = "Entry"
  /\ \A w \in Workers : wstate[w] = "running"

\* C20: a callback that starts after the quit flag has become true sends
\* nothing on the channel and stops its thread's traversal.
C20_QuitFlagStopsWorkers ==
  [][(quit_flag /\ CallbackRuns) =>
       /\ chan' = chan /\ sent' = sent
       /\ \E w \in Workers : wstate[w] = "running" /\ wstate'[w] # "running"]_vars

\* C21: past the deadline and still Buffering, the next receive step is a
\* Timeout that reads nothing from the channel, whether messages are queued
\* or the channel is disconnected; the disconnect is then observed in
\* Streaming mode, and at that stop the output is the flushed buffer
\* followed by the messages received afterwards, none lost.
C21_TimeoutBeforeChannel ==
  /\ [][(DeadlineReachedBuffering /\ ReceiverMoves) =>
          /\ chan' = chan /\ nrecv' = nrecv
          /\ errorsReported' = errorsReported
          /\ trigger' = "timeout" /\ stopCause' # "disconnect"]_vars
  /\ [][(deadlinePassed /\ stopCause = "none" /\ stopCause' = "disconnect") =>
          rb.mode = "Streaming"]_vars
  /\ []((trigger = "timeout" /\ StoppedOnDisconnect) =>
          /\ rb.stdout = switchBuf \o StreamedIn
          /\ Range(rb.stdout) = sent)

\* The channel was disconnected before the deadline; the timeout flushed a
\* non-empty buffer, the messages still queued were streamed after it, and
\* the receiver stopped on the disconnect.
C21_Witness ==
  /\ trigger = "timeout" /\ discBeforeDeadline /\ StoppedOnDisconnect
  /\ Len(switchBuf) >= 1 /\ Len(StreamedOut) >= 1

\* C22: as long as the sink has not failed, the result counter equals the
\* number of Entry messages received, which is the number of entries in the
\* buffer plus the number written to the output; the counter never
\* decreases.
C22_CounterMatchesReceived ==
  /\ [](sinkFault = "none" =>
          /\ rb.num_results = nrecv
          /\ nrecv = Len(rb.buffer) + Len(rb.stdout))
  /\ [][rb'.num_results >= rb.num_results]_vars

\* Entries were counted while buffered and, after the timeout flush, while
\* streamed; the receiver is still running.
C22_Witness ==
  /\ sinkFault = "none" /\ rpc = "running" /\ trigger = "timeout"
  /\ Len(switchBuf) >= 1 /\ Len(StreamedOut) >= 1
  /\ rb.num_results = Len(rb.stdout)
====
